---- MODULE Spec2Model ----
(***************************************************************************)
(* Schedule Proposal & Retrieval Engine: the conversation state machine of *)
(* GeminiCalendarChat / GeminiCalendarAssistant, the interval-conflict     *)
(* detector and the sleep-impact estimator.                                *)
(*                                                                         *)
(* A text is a sequence of tokens; Python's substring test `x in s` is the *)
(* token membership Contains(s, x) and s.lower() maps every token to its   *)
(* lower-case form.  The empty string is the empty sequence.               *)
(* A timestamp is the ISO string "2025-01-<day>T<hour>:<minute>:00Z",      *)
(* kept as the record [day, hour, minute].                                 *)
(***************************************************************************)
EXTENDS Integers, Sequences, FiniteSets, TLC

\* ------------------------------------------------------------------ bounds
\* turns recorded since the last reset
MaxTurns == 3
\* proposals held by one context
MaxProposals == 2
\* events handed to the conflict detector / sleep estimator
MaxEvents == 2
\* words of a problem description handed to the proposal builder
MaxWords == 2
\* comma-separated fields of the short replies to an embedding prompt, and
\* fields a long reply may have beyond the vector length
MaxFields == 2
\* questions recorded in a context handed to a single turn
MaxQuestions == 2
\* requests the server receives
MaxRequests == 3
\* seconds the server's clock shows while it is watched
MaxClock == 2
\* runs of the planning workflow
MaxRuns == 2
\* candidates handed to find_most_similar
MaxCandidates == 3
\* the length of an embedding vector: the literal 768 of get_embedding and of
\* _generate_fallback_embedding, kept small here
EmbeddingDim == 4

\* ------------------------------------------------------------------- texts
EmptyText == <<>>

\* str.lower() on one token
LowerToken(tok) ==
    CASE tok = "Proposal" -> "proposal"
      [] tok = "Schedule" -> "schedule"
      [] tok = "Hectic"   -> "hectic"
      [] tok = "Sleep"    -> "sleep"
      [] OTHER            -> tok

\* str.lower()
Lower(text) == [i \in 1..Len(text) |-> LowerToken(text[i])]

\* `tok in text`
Contains(text, tok) == \E i \in 1..Len(text) : text[i] = tok

\* what a user may type in one turn (the empty string included)
UserInputs == { EmptyText, <<"my", "week", "is", "Hectic">>, <<"I", "need", "sleep">> }

\* plain-text replies of the text-generation collaborator
ReplyTexts ==
    { <<"ok">>,
      <<"which", "day", "?">>,
      <<"here", "is", "a", "Proposal">>,
      <<"your", "schedule", "looks", "busy">> }

\* problem_description arguments the collaborator may pass
ProblemTexts ==
    { <<"Hectic", "week", "no", "sleep">>,
      <<"nothing", "special">> }

\* ------------------------------------------------------------- timestamps
\* datetime.fromisoformat(s.replace('Z', '+00:00')): the instant, in minutes
ParseIso(ts) == (ts.day * 24 + ts.hour) * 60 + ts.minute

\* datetime.fromisoformat(...).hour
HourOf(ts) == ts.hour

At(d, h, m) == [day |-> d, hour |-> h, minute |-> m]

\* instants offered to the conflict detector and the sleep estimator
TimeStamps == { At(15, 8, 0), At(15, 12, 0), At(15, 18, 0), At(15, 22, 0), At(16, 7, 0) }

\* event dictionaries {'start': ..., 'end': ...} of a function call
EventDicts == [start : TimeStamps, end : TimeStamps]

\* a number of hours, counted in tenths of an hour (7.5 hours is Hours(7) + 5)
Hours(h) == 10 * h

\* sleep_target_hours arguments
SleepTargets == { Hours(7), Hours(8) }

\* sequences over S of length at most n
SeqUpTo(S, n) == UNION { [1..k -> S] : k \in 0..n }

\* --------------------------------------------------- conflict detector
\* _events_overlap with <= in place of <
EventsOverlapTouching(event1, event2) ==
    LET start1 == ParseIso(event1.start)
        end1   == ParseIso(event1.end)
        start2 == ParseIso(event2.start)
        end2   == ParseIso(event2.end)
    IN  start1 <= end2 /\ start2 <= end1

\* GeminiCalendarChat._events_overlap / GeminiCalendarAssistant._events_overlap
EventsOverlap(event1, event2) ==
    LET start1 == ParseIso(event1.start)
        end1   == ParseIso(event1.end)
        start2 == ParseIso(event2.start)
        end2   == ParseIso(event2.end)
    IN  start1 < end2 /\ start2 < end1

\* the inner loop `for j, event2 in enumerate(events[i+1:], i+1)` from j on
RECURSIVE InnerLoop(_, _, _)
InnerLoop(events, i, j) ==
    IF j > Len(events) THEN <<>>
    ELSE (IF EventsOverlap(events[i], events[j])
             THEN << [event1 |-> events[i], event2 |-> events[j],
                      type |-> "time_overlap", severity |-> "high"] >>
             ELSE <<>>)
         \o InnerLoop(events, i, j + 1)

\* the outer loop `for i, event1 in enumerate(events)` from i on
RECURSIVE OuterLoop(_, _)
OuterLoop(events, i) ==
    IF i > Len(events) THEN <<>>
    ELSE InnerLoop(events, i, i + 1) \o OuterLoop(events, i + 1)

\* _analyze_schedule_conflicts: no event is validated, every list succeeds
AnalyzeScheduleConflicts(events) ==
    LET conflicts == OuterLoop(events, 1)
    IN  [success |-> TRUE, conflicts |-> conflicts, conflict_count |-> Len(conflicts)]

\* ------------------------------------------------------ sleep estimator
\* _calculate_sleep_hours with the two non-default rules in the other order
CalculateSleepHoursEarlyFirst(evening_events, morning_events) ==
    LET late_evening_events  == SelectSeq(evening_events, LAMBDA e : HourOf(e.start) >= 22)
        early_morning_events == SelectSeq(morning_events, LAMBDA e : HourOf(e.start) <= 7)
    IN  IF Len(late_evening_events) = 0 /\ Len(early_morning_events) = 0 THEN Hours(8)
        ELSE IF Len(early_morning_events) > 0 THEN Hours(7)
        ELSE Hours(6)

\* _calculate_sleep_hours
CalculateSleepHours(evening_events, morning_events) ==
    LET late_evening_events  == SelectSeq(evening_events, LAMBDA e : HourOf(e.start) >= 22)
        early_morning_events == SelectSeq(morning_events, LAMBDA e : HourOf(e.start) <= 7)
    IN  IF Len(late_evening_events) = 0 /\ Len(early_morning_events) = 0 THEN Hours(8)
        ELSE IF Len(late_evening_events) > 0 THEN Hours(6)
        ELSE Hours(7)

\* _assess_sleep_impact
AssessSleepImpact(events, sleep_target_hours) ==
    LET evening_events == SelectSeq(events, LAMBDA e : HourOf(e.start) >= 18)
        morning_events == SelectSeq(events, LAMBDA e : ~(HourOf(e.start) >= 18) /\ HourOf(e.start) <= 8)
        estimated_sleep_hours == CalculateSleepHours(evening_events, morning_events)
    IN  [success |-> TRUE,
         estimated_sleep_hours |-> estimated_sleep_hours,
         below_target |-> estimated_sleep_hours < sleep_target_hours,
         evening_events_count |-> Len(evening_events),
         morning_events_count |-> Len(morning_events)]

\* -------------------------------------------------------------- data model
\* preferences['sleep_target_hours'] of a new context
DefaultSleepTargetHours == Hours(7)

\* ConversationContext() after __post_init__
ConversationContext ==
    [problem_statement    |-> EmptyText,
     clarifying_questions |-> <<>>,
     user_answers         |-> <<>>,
     current_events       |-> <<>>,
     proposals            |-> <<>>,
     preferences          |-> [sleep_target_hours |-> DefaultSleepTargetHours,
                               priorities         |-> <<"sleep", "focus">>,
                               protected_windows  |-> <<>>,
                               iteration_count    |-> 0]]

\* Optional[...] = None; an id f"<prefix>_{uuid}" is the pair <<prefix, uuid>>
\* and a literal id such as 'event_1' the 1-tuple <<"event_1">>
None == <<>>

\* CalendarEvent(...) with the dataclass defaults
CalendarEvent(id, title, start, end, duration_minutes, source, change_type) ==
    [id |-> id, title |-> title, start |-> start, end |-> end,
     duration_minutes |-> duration_minutes, source |-> source,
     change_type |-> change_type, original_event_id |-> None, accepted |-> None]

\* ChangeItem(...) with the dataclass default accepted = 'pending'
ChangeItem(id, type, event, target_event_id, rationale) ==
    [id |-> id, type |-> type, event |-> event,
     target_event_id |-> target_event_id, rationale |-> rationale,
     accepted |-> "pending"]

\* uuid values held by the proposals of a context
UsedIds(proposals) ==
    UNION { {proposals[k].id[2]}
            \cup { proposals[k].changes[c].id[2] : c \in 1..Len(proposals[k].changes) }
            \cup { proposals[k].changes[c].event.id[2] : c \in 1..Len(proposals[k].changes) }
          : k \in 1..Len(proposals) }

\* uuid.uuid4().hex[:8]: the n-th value drawn, different from every id in use
RECURSIVE Uuid4(_, _)
Uuid4(used, n) ==
    LET RECURSIVE Free(_)
        Free(k) == IF k \in used THEN Free(k + 1) ELSE k
        first == Free(1)
    IN  IF n = 1 THEN first ELSE Uuid4(used \cup {first}, n - 1)

\* ------------------------------------------------------- proposal builder
FocusTimeChange(ids, rationale) ==
    ChangeItem(<<"change", ids[1]>>, "add",
               CalendarEvent(<<"event", ids[2]>>, "Focus Time", At(15, 9, 0), At(15, 11, 0), 120,
                             "proposed", "add"),
               None, rationale)

EveningActivityChangeRetyped(ids, rationale) ==
    ChangeItem(<<"change", ids[1]>>, "move",
               CalendarEvent(<<"event", ids[2]>>, "Evening Activity", At(15, 18, 0), At(15, 19, 0), 60,
                             "proposed", "adjust"),
               <<"existing_evening_event">>, rationale)

EveningActivityChange(ids, rationale) ==
    ChangeItem(<<"change", ids[1]>>, "move",
               CalendarEvent(<<"event", ids[2]>>, "Evening Activity", At(15, 18, 0), At(15, 19, 0), 60,
                             "proposed", "move"),
               <<"existing_evening_event">>, rationale)

MeetingAdjustmentChange(ids) ==
    ChangeItem(<<"change", ids[1]>>, "adjust",
               CalendarEvent(<<"event", ids[2]>>, "Meeting Adjustment", At(15, 10, 30), At(15, 11, 30), 60,
                             "proposed", "adjust"),
               <<"conflicting_meeting">>,
               "Adjusted meeting time to resolve scheduling conflicts")

OptimizationBlockChange(ids) ==
    ChangeItem(<<"change", ids[1]>>, "add",
               CalendarEvent(<<"event", ids[2]>>, "Optimization Block", At(15, 14, 0), At(15, 15, 0), 60,
                             "proposed", "add"),
               None,
               "Added optimization block to improve overall schedule balance")

\* the two ids of the change appended when `done` changes are already built;
\* the proposal id was drawn first
ChangeIds(used, done) == << Uuid4(used, 2 * done + 2), Uuid4(used, 2 * done + 3) >>

\* GeminiCalendarChat._generate_proposal_changes
ChatGenerateProposalChanges(problem, used) ==
    LET p  == Lower(problem)
        c1 == IF Contains(p, "hectic") \/ Contains(p, "busy")
              THEN << FocusTimeChange(ChangeIds(used, 0),
                        "Added dedicated focus time to reduce hectic schedule and improve productivity") >>
              ELSE <<>>
        c2 == IF Contains(p, "sleep") \/ Contains(p, "tired")
              THEN c1 \o << EveningActivityChange(ChangeIds(used, Len(c1)),
                        "Moved evening activity earlier to improve sleep schedule and ensure adequate rest") >>
              ELSE c1
        c3 == IF Contains(p, "meeting") \/ Contains(p, "conflict")
              THEN c2 \o << MeetingAdjustmentChange(ChangeIds(used, Len(c2))) >>
              ELSE c2
    IN  IF c3 = <<>> THEN << OptimizationBlockChange(ChangeIds(used, 0)) >> ELSE c3

\* GeminiCalendarAssistant._generate_proposal_changes
AssistantGenerateProposalChanges(problem, used) ==
    LET p  == Lower(problem)
        c1 == IF Contains(p, "hectic") \/ Contains(p, "busy")
              THEN << FocusTimeChange(ChangeIds(used, 0),
                        "Added dedicated focus time to reduce hectic schedule") >>
              ELSE <<>>
        c2 == IF Contains(p, "sleep")
              THEN c1 \o << EveningActivityChange(ChangeIds(used, Len(c1)),
                        "Moved evening activity earlier to improve sleep schedule") >>
              ELSE c1
    IN  c2

\* Proposal(id, revision=1, changes, summary, sleep_assessment, created_at):
\* the revision is the literal 1 and previous_proposal_id keeps its default
NewProposal(impl_, problem_description, proposals) ==
    LET used    == UsedIds(proposals)
        changes == IF impl_ = "chat"
                   THEN ChatGenerateProposalChanges(problem_description, used)
                   ELSE AssistantGenerateProposalChanges(problem_description, used)
    IN  [id       |-> <<"proposal", Uuid4(used, 1)>>,
         revision |-> 1,
         changes  |-> changes,
         summary  |-> problem_description,
         sleep_assessment |->
             IF impl_ = "chat"
             THEN [estimated_sleep_hours |-> Hours(7) + 5, below_target |-> FALSE,
                   evening_events_count |-> 2, morning_events_count |-> 1]
             ELSE [estimated_sleep_hours |-> Hours(7) + 5, below_target |-> FALSE],
         status   |-> "pending",
         previous_proposal_id |-> None]

\* ------------------------------------------------- collaborator outcomes
FunctionNames ==
    { "get_calendar_events", "create_calendar_event", "update_calendar_event",
      "delete_calendar_event", "generate_schedule_proposal",
      "analyze_schedule_conflicts", "assess_sleep_impact", "no_such_function" }

\* event lists the collaborator passes to analyze_schedule_conflicts / assess_sleep_impact
CallEventLists ==
    { <<>>,
      << [start |-> At(15, 8, 0), end |-> At(15, 18, 0)],
         [start |-> At(15, 12, 0), end |-> At(15, 22, 0)] >> }

\* function_call parts: args_ok is FALSE when a required argument is missing or
\* an argument has the wrong type, so that the call raises
FunctionCalls ==
    { [name |-> "get_calendar_events", args_ok |-> b, problem_description |-> EmptyText,
       events |-> <<>>, sleep_target_hours |-> DefaultSleepTargetHours] : b \in BOOLEAN }
    \cup
    { [name |-> n, args_ok |-> TRUE, problem_description |-> EmptyText,
       events |-> <<>>, sleep_target_hours |-> DefaultSleepTargetHours]
        : n \in { "create_calendar_event", "update_calendar_event",
                  "delete_calendar_event", "no_such_function" } }
    \cup
    { [name |-> "generate_schedule_proposal", args_ok |-> TRUE, problem_description |-> p,
       events |-> <<>>, sleep_target_hours |-> DefaultSleepTargetHours] : p \in ProblemTexts }
    \cup
    { [name |-> "generate_schedule_proposal", args_ok |-> FALSE,
       problem_description |-> EmptyText,
       events |-> <<>>, sleep_target_hours |-> DefaultSleepTargetHours] }
    \cup
    { [name |-> n, args_ok |-> TRUE, problem_description |-> EmptyText,
       events |-> ev, sleep_target_hours |-> DefaultSleepTargetHours]
        : n \in { "analyze_schedule_conflicts", "assess_sleep_impact" },
          ev \in CallEventLists }

NoCall == [name |-> "", args_ok |-> FALSE, problem_description |-> EmptyText,
           events |-> <<>>, sleep_target_hours |-> DefaultSleepTargetHours]

\* what generate_content(prompt) does in one turn: it raises, returns plain text,
\* or returns a function_call part; follow_up_raises is the outcome of the second
\* generate_content call of _continue_conversation_with_result
Outcomes ==
    { [kind |-> "raise", text |-> EmptyText, call |-> NoCall, follow_up_raises |-> FALSE] }
    \cup
    { [kind |-> "text", text |-> t, call |-> NoCall, follow_up_raises |-> FALSE]
        : t \in ReplyTexts }
    \cup
    { [kind |-> "function_call", text |-> EmptyText, call |-> c, follow_up_raises |-> f]
        : c \in FunctionCalls, f \in BOOLEAN }

NoOutcome == [kind |-> "none", text |-> EmptyText, call |-> NoCall, follow_up_raises |-> FALSE]

\* ------------------------------------------------------ calendar functions
\* mock_events of GeminiCalendarChat._get_calendar_events
ChatMockEvents ==
    << CalendarEvent(<<"event_1">>, "Team Meeting", At(15, 9, 0), At(15, 10, 0), 60, "current", "none"),
       CalendarEvent(<<"event_2">>, "Lunch Break", At(15, 12, 0), At(15, 13, 0), 60, "current", "none"),
       CalendarEvent(<<"event_3">>, "Project Review", At(15, 14, 0), At(15, 15, 30), 90, "current", "none") >>

\* mock_events of GeminiCalendarAssistant._get_calendar_events
AssistantMockEvents ==
    << CalendarEvent(<<"event_1">>, "Team Meeting", At(15, 9, 0), At(15, 10, 0), 60, "current", "none"),
       CalendarEvent(<<"event_2">>, "Lunch Break", At(15, 12, 0), At(15, 13, 0), 60, "current", "none") >>

\* {'error': ...}
FunctionError(message) == [error |-> TRUE, key |-> "error", value |-> message]

\* {'success': True, <key>: <value>, ...}
FunctionSuccess(key, value) == [error |-> FALSE, key |-> key, value |-> value]

\* _generate_schedule_proposal: builds one Proposal and appends it to the context
GenerateScheduleProposal(impl_, ctx, problem_description) ==
    LET proposal == NewProposal(impl_, problem_description, ctx.proposals)
    IN  [context         |-> [ctx EXCEPT !.proposals = Append(@, proposal)],
         function_result |-> FunctionSuccess("proposal", proposal)]

\* _execute_calendar_function / _execute_function_call: the dispatch, with its
\* `except Exception` turning a raising call into an error result
ExecuteCalendarFunction(impl_, ctx, call) ==
    IF call.name \notin FunctionNames \ {"no_such_function"}
       \/ (impl_ = "assistant" /\ call.name = "assess_sleep_impact")
    THEN [context |-> ctx, function_result |-> FunctionError("Unknown function")]
    ELSE IF ~call.args_ok
    THEN [context |-> ctx, function_result |-> FunctionError("Function execution failed")]
    ELSE CASE call.name = "get_calendar_events" ->
                LET mock_events == IF impl_ = "chat" THEN ChatMockEvents ELSE AssistantMockEvents
                IN  [context         |-> [ctx EXCEPT !.current_events = mock_events],
                     function_result |-> FunctionSuccess("events", Len(mock_events))]
           [] call.name = "generate_schedule_proposal" ->
                GenerateScheduleProposal(impl_, ctx, call.problem_description)
           [] call.name = "analyze_schedule_conflicts" ->
                [context         |-> ctx,
                 function_result |-> FunctionSuccess("conflicts",
                                        AnalyzeScheduleConflicts(call.events).conflict_count)]
           [] call.name = "assess_sleep_impact" ->
                [context         |-> ctx,
                 function_result |-> FunctionSuccess("estimated_sleep_hours",
                                        AssessSleepImpact(call.events, call.sleep_target_hours).estimated_sleep_hours)]
           [] OTHER ->
                [context |-> ctx, function_result |-> FunctionSuccess("event_id", call.name)]

\* _generate_function_result_response: the reply text of the function-call path
GenerateFunctionResultResponse(function_result) ==
    IF function_result.error THEN <<"I", "encountered", "an", "issue">>
    ELSE CASE function_result.key = "events"    -> <<"I", "found", "events">>
           [] function_result.key = "proposal"  ->
                <<"I", "generated", "a", "schedule", "proposal", "?">>
           [] function_result.key = "conflicts" ->
                IF function_result.value > 0 THEN <<"I", "found", "conflicts">>
                ELSE <<"no", "conflicts">>
           [] function_result.key = "event_id"  -> <<"done">>
           [] OTHER -> <<"I", "completed", "the", "requested", "action">>

\* ---------------------------------------------------------------- turns
\* the first statement of a turn, assigning on every turn
StoreProblemStatementAlways(problem_statement, user_input) == user_input

\* `if not self.context.problem_statement: self.context.problem_statement = user_input`
StoreProblemStatement(problem_statement, user_input) ==
    IF problem_statement = EmptyText THEN user_input ELSE problem_statement

\* the answer branch taken also when no question is outstanding
AnswerOutstandingOrEqual(ctx) == Len(ctx.clarifying_questions) >= Len(ctx.user_answers)

\* `elif len(clarifying_questions) > len(user_answers)`
AnswerOutstanding(ctx) == Len(ctx.clarifying_questions) > Len(ctx.user_answers)

\* _is_clarifying_question: "True", "False", or "raise" for the AttributeError of
\* str.includes, evaluated only when the first two conjuncts hold
IsClarifyingQuestion(ctx, response) ==
    IF Contains(response, "?") /\ Len(ctx.user_answers) < Len(ctx.clarifying_questions)
    THEN "raise"
    ELSE "False"

\* a str returned by chat_with_calendar_context
StrResult(text) == [shape |-> "str", message |-> text]

\* the text of the `except Exception` branch: f"I encountered an error: {e}"
ErrorMessage == <<"I", "encountered", "an", "error">>

\* _process_enhanced_response: the context after it and the str it returns, or
\* raised = TRUE when an exception leaves it
ProcessEnhancedResponse(ctx, outcome, user_input) ==
    IF outcome.kind = "function_call"
    THEN LET done == ExecuteCalendarFunction("chat", ctx, outcome.call)
         IN  [context |-> done.context, raised |-> FALSE,
              response |-> GenerateFunctionResultResponse(done.function_result)]
    ELSE LET response_text == outcome.text
             question      == IsClarifyingQuestion(ctx, response_text)
         IN  IF question = "raise"
             THEN [context |-> ctx, raised |-> TRUE, response |-> EmptyText]
             ELSE IF question = "True"
             THEN [context  |-> [ctx EXCEPT !.clarifying_questions = Append(@, response_text)],
                   raised   |-> FALSE, response |-> response_text]
             ELSE IF AnswerOutstanding(ctx)
             THEN [context  |-> [ctx EXCEPT !.user_answers = Append(@, user_input)],
                   raised   |-> FALSE, response |-> response_text]
             ELSE [context |-> ctx, raised |-> FALSE, response |-> response_text]

\* _process_gemini_response: the context after it and the dict it returns
ProcessGeminiResponse(ctx, outcome, user_input) ==
    IF outcome.kind = "function_call"
    THEN LET done == ExecuteCalendarFunction("assistant", ctx, outcome.call)
         IN  [context |-> done.context,
              result  |-> [shape |-> "dict", type |-> "function_result",
                           message |-> IF outcome.follow_up_raises
                                       THEN <<"I", "completed", "the", "requested", "action">>
                                       ELSE <<"done">>,
                           function_result |-> done.function_result]]
    ELSE LET response_text == outcome.text
         IN  IF Contains(response_text, "?")
                /\ Len(ctx.user_answers) < Len(ctx.clarifying_questions)
             THEN [context |-> [ctx EXCEPT !.clarifying_questions = Append(@, response_text)],
                   result  |-> [shape |-> "dict", type |-> "clarifying_question",
                                question |-> response_text, message |-> response_text]]
             ELSE IF Contains(Lower(response_text), "proposal")
                     \/ Contains(Lower(response_text), "schedule")
             THEN [context |-> ctx,
                   result  |-> [shape |-> "dict", type |-> "proposal",
                                message |-> response_text, proposal |-> None]]
             ELSE [context |-> ctx,
                   result  |-> [shape |-> "dict", type |-> "response",
                                message |-> response_text]]

\* the dict of the `except Exception` branch of process_user_input
ErrorResult ==
    [shape |-> "dict", type |-> "error", message |-> ErrorMessage,
     suggestions |-> <<"Try rephrasing your request", "Check your calendar permissions">>]

NoResult == [shape |-> "none"]

VARIABLES
    impl,        \* "chat": a GeminiCalendarChat, "assistant": a GeminiCalendarAssistant
    context,     \* self.context
    turnTexts,   \* the user_input of every turn since construction or the last reset
    lastCall,    \* the operation that ran last and the collaborator's outcome in it
    result,      \* what that operation returned
    events,      \* the events argument of the standalone detector / estimator
    fnResult     \* what the detector / estimator returned for it

VARIABLES
    problem_description,  \* the argument of the standalone _generate_proposal_changes
    changes               \* what the builder returned for it

VARIABLES
    embInput,    \* the text argument of EmbeddingService.get_embedding
    response,    \* what generate_content did in the call that ran last
    embedding    \* the vector get_embedding returned

VARIABLES
    query_embedding,       \* the query argument of find_most_similar
    candidate_embeddings,  \* its candidates argument
    most_similar           \* k and what find_most_similar returned

VARIABLES
    sessions,       \* chat_manager.sessions: session id -> its GeminiCalendarChat
    chats,          \* the context of every GeminiCalendarChat constructed so far
    session_lock,   \* the thread inside `with self.session_lock`, if any
    pc,             \* where each request-handling thread stands
    req,            \* the request each thread is serving
    chat_instance,  \* the instance get_or_create_session returned to each thread
    access,         \* the last read or write of chat_manager.sessions
    creations,      \* instances constructed for an id since its entry last was absent
    started,        \* requests received so far
    now,            \* int(time.time()): the second the clock shows
    opened,         \* what each start_conversation without a session_id obtained
    turn_log        \* per instance, the turns that obtained it and those that ended

VARIABLES
    workflow,          \* the locals of the run_planning_workflow call in progress
    utterances_table,  \* the rows store_utterance has written
    calls              \* the collaborator calls of that run, in the order made

\* the state of the standalone proposal builder
builderVars == << problem_description, changes >>

\* the state of the embedding service
embeddingVars == << embInput, response, embedding >>

\* the arguments and the result of a top-k ranking
similarVars == << query_embedding, candidate_embeddings, most_similar >>

\* the state of the Flask server
serverVars == << sessions, chats, session_lock, pc, req, chat_instance, access, creations,
                 started, now, opened, turn_log >>

\* the state of the planning workflow
workflowVars == << workflow, utterances_table, calls >>

\* the variables neither the conversation nor the detector / estimator touches
auxVars == << builderVars, embeddingVars, similarVars, serverVars, workflowVars >>

vars == << impl, context, turnTexts, lastCall, result, events, fnResult, auxVars >>

\* no standalone builder call was made
NoChanges == [built |-> FALSE]

BuilderIdle == problem_description = EmptyText /\ changes = NoChanges

\* no get_embedding call was made
NoResponse == [kind |-> "none"]
NoEmbedding == [done |-> FALSE]

EmbeddingIdle == embInput = <<>> /\ response = NoResponse /\ embedding = NoEmbedding

\* no find_most_similar call was made
NoMostSimilar == [done |-> FALSE]

SimilarIdle ==
    query_embedding = <<>> /\ candidate_embeddings = <<>> /\ most_similar = NoMostSimilar

\* threads of app.run(threaded=True) serving requests at one time
Threads == { "t1", "t2" }

\* session ids clients send
SessionIds == { "a", "b" }

\* session_id absent from the request
NoSessionId == ""

\* f"session_{int(time.time())}"
GeneratedSessionId(seconds) == "session_" \o ToString(seconds)

\* the ids get_or_create_session generates while the clock runs
GeneratedIds == { GeneratedSessionId(n) : n \in 1..MaxClock }

NoThread == "none"

\* no instance: an index into chats otherwise
NoInstance == 0

NoRequest == [kind |-> "none", session_id |-> NoSessionId, message |-> EmptyText]

NoAccess == [op |-> "none", locked |-> TRUE]

\* chat_manager = ChatManager(): no session, the lock free, no request in service
ServerInit ==
    /\ sessions = << >>
    /\ chats = << >>
    /\ session_lock = NoThread
    /\ pc = [t \in Threads |-> "idle"]
    /\ req = [t \in Threads |-> NoRequest]
    /\ chat_instance = [t \in Threads |-> NoInstance]
    /\ access = NoAccess
    /\ creations = [s \in SessionIds \cup GeneratedIds |-> 0]
    /\ started = 0
    /\ now = 1
    /\ opened = << >>
    /\ turn_log = << >>

\* no run_planning_workflow call was made
NoWorkflow ==
    [step |-> "none", run |-> 0, user_query |-> << >>, is_light |-> FALSE,
     query_embedding |-> << >>, snippets |-> << >>, routines |-> << >>,
     utterances |-> << >>, context |-> << >>, ai_response |-> << >>, returned |-> "nothing"]

WorkflowIdle == workflow = NoWorkflow /\ utterances_table = << >> /\ calls = << >>

AuxIdle == BuilderIdle /\ EmbeddingIdle /\ SimilarIdle /\ ServerInit /\ WorkflowIdle

NoFnResult == [fn |-> "none"]

Init ==
    /\ impl \in {"chat", "assistant"}
    /\ context = ConversationContext
    /\ turnTexts = <<>>
    /\ lastCall = [op |-> "init", outcome |-> NoOutcome]
    /\ result = NoResult
    /\ events = <<>>
    /\ fnResult = NoFnResult
    /\ AuxIdle

\* a turn is taken while the recorded history and the proposal list have room
TurnAllowed(outcome) ==
    /\ Len(turnTexts) < MaxTurns
    /\ (outcome.kind = "function_call" /\ outcome.call.name = "generate_schedule_proposal")
          => Len(context.proposals) < MaxProposals

\* GeminiCalendarChat.chat_with_calendar_context
ChatWithCalendarContext(user_input, outcome) ==
    /\ impl = "chat"
    /\ TurnAllowed(outcome)
    /\ outcome.kind = "function_call" => ~outcome.follow_up_raises
    /\ LET stored == [context EXCEPT !.problem_statement = StoreProblemStatement(@, user_input)]
           done   == ProcessEnhancedResponse(stored, outcome, user_input)
       IN  IF outcome.kind = "raise"
           THEN /\ context' = stored
                /\ result' = StrResult(ErrorMessage)
           ELSE /\ context' = done.context
                /\ result' = IF done.raised THEN StrResult(ErrorMessage)
                             ELSE StrResult(done.response)
    /\ turnTexts' = Append(turnTexts, user_input)
    /\ lastCall' = [op |-> "turn", outcome |-> outcome]
    /\ UNCHANGED << impl, events, fnResult >>
    /\ UNCHANGED auxVars

\* GeminiCalendarAssistant.process_user_input
ProcessUserInput(user_input, outcome) ==
    /\ impl = "assistant"
    /\ TurnAllowed(outcome)
    /\ LET stored == [context EXCEPT !.problem_statement = StoreProblemStatement(@, user_input)]
           done   == ProcessGeminiResponse(stored, outcome, user_input)
       IN  IF outcome.kind = "raise"
           THEN /\ context' = stored
                /\ result' = ErrorResult
           ELSE /\ context' = done.context
                /\ result' = done.result
    /\ turnTexts' = Append(turnTexts, user_input)
    /\ lastCall' = [op |-> "turn", outcome |-> outcome]
    /\ UNCHANGED << impl, events, fnResult >>
    /\ UNCHANGED auxVars

\* what a reset threw away, kept with the record of the reset
Wiped(ctx) ==
    [problem_statement  |-> ctx.problem_statement,
     proposals          |-> Len(ctx.proposals),
     sleep_target_hours |-> ctx.preferences.sleep_target_hours]

\* as ResetContext, the preferences outliving the reset
ResetContextKeepingPreferences(old) ==
    [ConversationContext EXCEPT !.preferences = old.preferences]

\* self.context = ConversationContext(): a new object, nothing of the old one kept
ResetContext(old) == ConversationContext

\* GeminiCalendarChat.clear_calendar_context
ClearCalendarContext ==
    /\ impl = "chat"
    /\ context' = ResetContext(context)
    /\ turnTexts' = <<>>
    /\ lastCall' = [op |-> "clear", outcome |-> NoOutcome, wiped |-> Wiped(context)]
    /\ result' = NoResult
    /\ UNCHANGED << impl, events, fnResult >>
    /\ UNCHANGED auxVars

\* GeminiCalendarAssistant.clear_conversation
ClearConversation ==
    /\ impl = "assistant"
    /\ context' = ResetContext(context)
    /\ turnTexts' = <<>>
    /\ lastCall' = [op |-> "clear", outcome |-> NoOutcome, wiped |-> Wiped(context)]
    /\ result' = NoResult
    /\ UNCHANGED << impl, events, fnResult >>
    /\ UNCHANGED auxVars

\* sleep_target_hours values passed to update_preferences
PreferenceUpdates == { Hours(6), Hours(8) }

\* GeminiCalendarChat.update_preferences({'sleep_target_hours': hours})
UpdatePreferences(hours) ==
    /\ impl = "chat"
    /\ context' = [context EXCEPT !.preferences.sleep_target_hours = hours]
    /\ lastCall' = [op |-> "update_preferences", outcome |-> NoOutcome]
    /\ result' = NoResult
    /\ UNCHANGED << impl, turnTexts, events, fnResult >>
    /\ UNCHANGED auxVars

Next ==
    \/ \E u \in UserInputs, o \in Outcomes : ChatWithCalendarContext(u, o)
    \/ \E u \in UserInputs, o \in Outcomes : ProcessUserInput(u, o)
    \/ ClearCalendarContext
    \/ ClearConversation
    \/ \E h \in PreferenceUpdates : UpdatePreferences(h)

Spec == Init /\ [][Next]_vars

\* --------------------------------------- the detector and the estimator alone
InitFn ==
    /\ impl = "chat"
    /\ context = ConversationContext
    /\ turnTexts = <<>>
    /\ lastCall = [op |-> "init", outcome |-> NoOutcome]
    /\ result = NoResult
    /\ events \in SeqUpTo(EventDicts, MaxEvents)
    /\ fnResult = NoFnResult
    /\ AuxIdle

\* findConflicts(events): _analyze_schedule_conflicts called on its own
AnalyzeScheduleConflictsCall ==
    /\ fnResult' = [fn |-> "analyze_schedule_conflicts", out |-> AnalyzeScheduleConflicts(events)]
    /\ UNCHANGED << impl, context, turnTexts, lastCall, result, events >>
    /\ UNCHANGED auxVars

\* estimateSleepImpact(events, targetHours): _assess_sleep_impact called on its own
AssessSleepImpactCall(sleep_target_hours) ==
    /\ fnResult' = [fn |-> "assess_sleep_impact", target |-> sleep_target_hours,
                    out |-> AssessSleepImpact(events, sleep_target_hours)]
    /\ UNCHANGED << impl, context, turnTexts, lastCall, result, events >>
    /\ UNCHANGED auxVars

NextFn ==
    \/ AnalyzeScheduleConflictsCall
    \/ \E t \in SleepTargets : AssessSleepImpactCall(t)

SpecFn == InitFn /\ [][NextFn]_vars

\* ------------------------------------------------ the proposal builder alone
\* words of a problem description: each keyword of either builder, one of them
\* capitalised, and a word that is no keyword
ProblemWords == { "Hectic", "busy", "sleep", "tired", "meeting", "conflict", "other" }

\* the conversation and the detector / estimator at rest
ConversationIdle ==
    /\ context = ConversationContext
    /\ turnTexts = <<>>
    /\ lastCall = [op |-> "init", outcome |-> NoOutcome]
    /\ result = NoResult

FnIdle == events = <<>> /\ fnResult = NoFnResult

InitBuilder ==
    /\ impl \in {"chat", "assistant"}
    /\ ConversationIdle
    /\ FnIdle
    /\ problem_description \in SeqUpTo(ProblemWords, MaxWords)
    /\ changes = NoChanges
    /\ EmbeddingIdle
    /\ SimilarIdle
    /\ ServerInit
    /\ WorkflowIdle

\* _generate_proposal_changes(problem, constraints) called on its own, no id in use
GenerateProposalChangesCall ==
    /\ changes' = [built |-> TRUE,
                   out   |-> IF impl = "chat"
                             THEN ChatGenerateProposalChanges(problem_description, {})
                             ELSE AssistantGenerateProposalChanges(problem_description, {})]
    /\ UNCHANGED << impl, context, turnTexts, lastCall, result, events, fnResult,
                    problem_description, embeddingVars, similarVars, serverVars,
                    workflowVars >>

NextBuilder == GenerateProposalChangesCall

SpecBuilder == InitBuilder /\ [][NextBuilder]_vars

\* --------------------------------------------------- the embedding service
\* a float of a vector, exactly: the value q / 2^15 + r / 2^31 with 0 <= r < 2^16
Fixed(q, r) == [q |-> q, r |-> r]

\* 0.0
Zero == Fixed(0, 0)

\* texts and replies are sequences of characters
Digits == { "0", "1", "5" }

DigitValue(c) == CASE c = "0" -> 0 [] c = "1" -> 1 [] c = "5" -> 5

\* the characters re.sub(r'[^\d\.,\-]', '', ...) keeps
IsNumericChar(c) == c \in Digits \cup { ".", ",", "-" }

\* re.sub(r'[^\d\.,\-]', '', ...) followed by x.strip() on one comma-separated field
NumericPart(field) == SelectSeq(field, IsNumericChar)

\* whether float(x) accepts x (characters left by the substitution): an optional
\* sign, digits with at most one point, at least one digit
FloatAccepts(x) ==
    LET body   == IF x # <<>> /\ x[1] = "-" THEN Tail(x) ELSE x
        points == { i \in 1..Len(body) : body[i] = "." }
        digits == { i \in 1..Len(body) : body[i] \in Digits }
    IN  /\ \A i \in 1..Len(body) : body[i] # "-"
        /\ Cardinality(points) <= 1
        /\ digits # {}

RECURSIVE DigitsValue(_)
\* int() of a run of digits ('' is 0)
DigitsValue(ds) ==
    IF ds = <<>> THEN 0
    ELSE 10 * DigitsValue(SubSeq(ds, 1, Len(ds) - 1)) + DigitValue(ds[Len(ds)])

RECURSIVE Pow10(_)
Pow10(d) == IF d = 0 THEN 1 ELSE 10 * Pow10(d - 1)

\* float(x) for an accepted x
Float(x) ==
    LET negative == x[1] = "-"
        body     == IF negative THEN Tail(x) ELSE x
        point    == IF \E i \in 1..Len(body) : body[i] = "."
                    THEN CHOOSE i \in 1..Len(body) : body[i] = "."
                    ELSE Len(body) + 1
        n        == DigitsValue(SelectSeq(body, LAMBDA c : c \in Digits))
        den      == Pow10(IF point > Len(body) THEN 0 ELSE Len(body) - point)
        q        == (n * 32768) \div den
        r        == (((n * 32768) % den) * 65536) \div den
    IN  IF ~negative THEN Fixed(q, r)
        ELSE IF r = 0 THEN Fixed(0 - q, 0)
        ELSE Fixed(0 - q - 1, 65536 - r)

\* str.lower() on one character
LowerChar(c) == CASE c = "A" -> "a" [] c = "B" -> "b" [] OTHER -> c

\* str.lower() on a character sequence
LowerChars(chars) == [i \in 1..Len(chars) |-> LowerChar(chars[i])]

RECURSIVE SplitWords(_, _)
\* str.split(): the maximal runs of non-blank characters; `word` is the run
\* being read
SplitWords(chars, word) ==
    IF chars = <<>> THEN (IF word = <<>> THEN <<>> ELSE << word >>)
    ELSE IF Head(chars) = " "
         THEN (IF word = <<>> THEN <<>> ELSE << word >>) \o SplitWords(Tail(chars), <<>>)
         ELSE SplitWords(Tail(chars), Append(word, Head(chars)))

CharCode(c) == CASE c = " " -> 32 [] c = "a" -> 97 [] c = "b" -> 98 [] OTHER -> 63

RECURSIVE TextCode(_)
\* a number standing for the bytes of a text
TextCode(chars) ==
    IF chars = <<>> THEN 0
    ELSE (31 * TextCode(SubSeq(chars, 1, Len(chars) - 1)) + CharCode(chars[Len(chars)])) % 1024

\* int(hashlib.md5(f"{source_text}_{i}".encode()).hexdigest()[:8], 16): a fixed
\* function of its input onto 0 .. 2^32 - 1, as the pair of its 16-bit halves;
\* this one takes the values 0 and 2^32 - 1
Md5Prefix(source_text, i) ==
    LET n == TextCode(source_text) + i
    IN  [hi |-> (n * 65535) % 65536, lo |-> (n * 65535) % 65536]

\* (hash_value / (2**31)) - 1.0
Normalize(hash_value) == Fixed(hash_value.hi - 32768, hash_value.lo)

\* EmbeddingService._generate_fallback_embedding
GenerateFallbackEmbedding(text) ==
    LET text_lower == LowerChars(text)
        words      == SplitWords(text_lower, <<>>)
        source(i)  == IF i < Len(text_lower) THEN text_lower
                      ELSE IF words # <<>> THEN words[(i % Len(words)) + 1]
                      ELSE text_lower
    IN  [k \in 1..EmbeddingDim |-> Normalize(Md5Prefix(source(k - 1), k - 1))]

\* the fields of response.text between its commas, kept when the substitution
\* leaves something of them
KeptFields(fields) ==
    SelectSeq([i \in 1..Len(fields) |-> NumericPart(fields[i])], LAMBDA x : x # <<>>)

\* `not response.text`: the text is the empty string
ReplyEmpty(fields) == Len(fields) = 1 /\ fields[1] = <<>>

\* the list comprehension of get_embedding raises ValueError
ParseRaises(fields) ==
    LET kept == KeptFields(fields) IN \E i \in 1..Len(kept) : ~FloatAccepts(kept[i])

\* embedding = [float(x.strip()) for x in embedding_text.split(',') if x.strip()]
ParsedEmbedding(fields) ==
    LET kept == KeptFields(fields) IN [i \in 1..Len(kept) |-> Float(kept[i])]

\* as GetEmbedding, returning a parsed list of any length as it is
GetEmbeddingAsParsed(text, outcome) ==
    IF outcome.kind = "raise" THEN GenerateFallbackEmbedding(text)
    ELSE IF ReplyEmpty(outcome.fields) THEN GenerateFallbackEmbedding(text)
    ELSE IF ParseRaises(outcome.fields) THEN GenerateFallbackEmbedding(text)
    ELSE ParsedEmbedding(outcome.fields)

\* EmbeddingService.get_embedding
GetEmbedding(text, outcome) ==
    IF outcome.kind = "raise" THEN GenerateFallbackEmbedding(text)
    ELSE IF ReplyEmpty(outcome.fields) THEN GenerateFallbackEmbedding(text)
    ELSE IF ParseRaises(outcome.fields) THEN GenerateFallbackEmbedding(text)
    ELSE LET parsed == ParsedEmbedding(outcome.fields)
         IN  IF Len(parsed) = EmbeddingDim THEN parsed
             ELSE IF Len(parsed) > EmbeddingDim THEN SubSeq(parsed, 1, EmbeddingDim)
             ELSE parsed \o [k \in 1..(EmbeddingDim - Len(parsed)) |-> Zero]

\* texts handed to get_embedding: empty, blank, and with one and two words
EmbeddingTexts ==
    { <<>>, << " " >>, << "A" >>, << "b" >>, << " ", "a" >>, << "a", " ", "B" >> }

\* what may stand between two commas of a reply: nothing, prose, numbers inside
\* and outside [-1, 1], and text float() rejects
ReplyFields ==
    { <<>>, << "x", " " >>, << "1" >>, << "-", "0", ".", "5" >>, << "x", "5" >>, << "-" >>,
      << "1", ".", "5", ".", "0" >> }

\* replies of generate_content: every reply of up to MaxFields fields, and the
\* replies of about EmbeddingDim fields made of one first field and one repeated
ReplyTextsOfModel ==
    (SeqUpTo(ReplyFields, MaxFields) \ { <<>> })
    \cup { [i \in 1..n |-> IF i = 1 THEN f.first ELSE f.rest]
           : n \in (EmbeddingDim - 1)..(EmbeddingDim + MaxFields),
             f \in [first : ReplyFields, rest : ReplyFields] }

\* what generate_content (or the read of response.text) does in one call
EmbeddingOutcomes ==
    { [kind |-> "raise"] } \cup { [kind |-> "text", fields |-> t] : t \in ReplyTextsOfModel }

InitEmbedding ==
    /\ impl = "chat"
    /\ ConversationIdle
    /\ FnIdle
    /\ BuilderIdle
    /\ SimilarIdle
    /\ ServerInit
    /\ WorkflowIdle
    /\ embInput \in EmbeddingTexts
    /\ response = NoResponse
    /\ embedding = NoEmbedding

\* one call of get_embedding(text)
GetEmbeddingCall(outcome) ==
    /\ response' = outcome
    /\ embedding' = [done |-> TRUE, out |-> GetEmbedding(embInput, outcome)]
    /\ UNCHANGED << impl, context, turnTexts, lastCall, result, events, fnResult,
                    builderVars, similarVars, serverVars, workflowVars, embInput >>

NextEmbedding == \E o \in EmbeddingOutcomes : GetEmbeddingCall(o)

SpecEmbedding == InitEmbedding /\ [][NextEmbedding]_vars

\* ------------------------------------------------------------ top-k ranking
RECURSIVE Gcd(_, _)
Gcd(a, b) == IF b = 0 THEN a ELSE Gcd(b, a % b)

RECURSIVE Dot(_, _)
\* np.dot(vec1, vec2) of two vectors of one length
Dot(vec1, vec2) ==
    IF vec1 = <<>> THEN 0 ELSE Head(vec1) * Head(vec2) + Dot(Tail(vec1), Tail(vec2))

\* the float 0.0 as a similarity
NoSimilarity == [num |-> 0, den |-> 1]

\* EmbeddingService.similarity: the cosine c of two vectors, kept exactly as the
\* fraction num / den in lowest terms of c * |c|, which orders as c does; 0.0
\* for a zero norm and for vectors np.dot rejects (different lengths)
Similarity(embedding1, embedding2) ==
    IF Len(embedding1) # Len(embedding2) THEN NoSimilarity
    ELSE LET dot_product == Dot(embedding1, embedding2)
             norm1       == Dot(embedding1, embedding1)
             norm2       == Dot(embedding2, embedding2)
             square      == dot_product * dot_product
             g           == Gcd(norm1 * norm2, square)
         IN  IF norm1 = 0 \/ norm2 = 0 THEN NoSimilarity
             ELSE [num |-> (IF dot_product < 0 THEN 0 - square ELSE square) \div g,
                   den |-> (norm1 * norm2) \div g]

\* a < b on similarity values
SimilarityLess(a, b) == a.num * b.den < b.num * a.den

\* as InsertDescending, placing x before the entries equal to it
InsertDescendingBeforeEqual(sorted, x) ==
    LET before == { i \in 1..Len(sorted) : SimilarityLess(x.similarity, sorted[i].similarity) }
        n      == Cardinality(before)
    IN  SubSeq(sorted, 1, n) \o << x >> \o SubSeq(sorted, n + 1, Len(sorted))

\* one step of list.sort(key=similarity, reverse=True): x goes behind every
\* entry that is not smaller than it, so equal entries keep their order
InsertDescending(sorted, x) ==
    LET before == { i \in 1..Len(sorted) : ~SimilarityLess(sorted[i].similarity, x.similarity) }
        n      == Cardinality(before)
    IN  SubSeq(sorted, 1, n) \o << x >> \o SubSeq(sorted, n + 1, Len(sorted))

RECURSIVE SortDescending(_)
\* similarities.sort(key=lambda x: x['similarity'], reverse=True)
SortDescending(list) ==
    IF list = <<>> THEN <<>>
    ELSE InsertDescending(SortDescending(SubSeq(list, 1, Len(list) - 1)), list[Len(list)])

\* EmbeddingService.find_most_similar, k >= 0
FindMostSimilar(query, candidates, k) ==
    LET similarities == [i \in 1..Len(candidates) |->
                            [index      |-> i - 1,
                             similarity |-> Similarity(query, candidates[i]),
                             embedding  |-> candidates[i]]]
        sorted       == SortDescending(similarities)
    IN  SubSeq(sorted, 1, IF k < Len(sorted) THEN k ELSE Len(sorted))

\* vectors with whole-number values: two directions and their sum, an opposite,
\* the zero vector, and a vector of another length
SimilarVectors == { <<1, 0>>, <<0, 1>>, <<1, 1>>, <<0 - 1, 0>>, <<0, 0>>, <<1>> }

QueryVectors == { <<1, 0>>, <<1, 1>>, <<0, 0>> }

InitSimilar ==
    /\ impl = "chat"
    /\ ConversationIdle
    /\ FnIdle
    /\ BuilderIdle
    /\ EmbeddingIdle
    /\ ServerInit
    /\ WorkflowIdle
    /\ query_embedding \in QueryVectors
    /\ candidate_embeddings \in SeqUpTo(SimilarVectors, MaxCandidates)
    /\ most_similar = NoMostSimilar

\* one call of find_most_similar(query_embedding, candidate_embeddings, k)
FindMostSimilarCall(k) ==
    /\ most_similar = NoMostSimilar
    /\ most_similar' = [done |-> TRUE, k |-> k,
                        out |-> FindMostSimilar(query_embedding, candidate_embeddings, k)]
    /\ UNCHANGED << impl, context, turnTexts, lastCall, result, events, fnResult,
                    builderVars, embeddingVars, serverVars, workflowVars, query_embedding,
                    candidate_embeddings >>

NextSimilar == \E k \in 0..(MaxCandidates + 1) : FindMostSimilarCall(k)

SpecSimilar == InitSimilar /\ [][NextSimilar]_vars

\* ------------------------------------------------------------ Flask server
\* the greeting start_conversation sends as a turn
Greeting == << "Hello", "!", "what", "scheduling", "challenge", "are", "you", "facing", "?" >>

\* data['message'] of send_message
ServerMessages == { << "I", "need", "sleep" >> }

\* the requests clients send (those answered 400 before any work are left out)
ServerRequests ==
    { [kind |-> k, session_id |-> NoSessionId, message |-> EmptyText]
        : k \in { "health_check", "get_status", "clear_conversation" } }
    \cup { [kind |-> "start_conversation", session_id |-> s, message |-> Greeting]
             : s \in SessionIds \cup { NoSessionId } }
    \cup { [kind |-> "send_message", session_id |-> s, message |-> m]
             : s \in SessionIds, m \in ServerMessages }
    \cup { [kind |-> k, session_id |-> s, message |-> EmptyText]
             : k \in { "get_context", "clear_conversation" }, s \in SessionIds }

\* what generate_content does in a turn served by the server
ServerOutcomes ==
    { o \in Outcomes :
        \/ o.kind = "raise"
        \/ o.kind = "text" /\ o.text = << "ok" >>
        \/ /\ o.kind = "function_call"
           /\ o.call.name = "generate_schedule_proposal"
           /\ o.call.args_ok
           /\ o.call.problem_description # << "nothing", "special" >>
           /\ ~o.follow_up_raises }

\* the handlers that call chat_manager.get_or_create_session
UsesSession(kind) == kind \in { "start_conversation", "send_message", "get_context" }

\* where a handler goes on once get_or_create_session has returned
AfterLookup(kind) == IF kind = "get_context" THEN "read_context" ELSE "turn"

\* the variables the server leaves alone
nonServerVars == << impl, context, turnTexts, lastCall, result, events, fnResult,
                    builderVars, embeddingVars, similarVars, workflowVars >>

\* what get_or_create_session hands to a start_conversation that named no
\* session: the generated id and the instance registered under it
Obtained(t, instance) ==
    IF req[t].kind = "start_conversation" /\ req[t].session_id \in GeneratedIds
    THEN Append(opened, [session_id |-> req[t].session_id, instance |-> instance])
    ELSE opened

\* a second passes
Tick ==
    /\ now < MaxClock
    /\ now' = now + 1
    /\ UNCHANGED << sessions, chats, session_lock, pc, req, chat_instance, access, creations,
                    started, opened, turn_log >>
    /\ UNCHANGED nonServerVars

\* a thread takes a request: health_check reads the registry at once, every
\* other handler first enters `with session_lock`; a handler given no
\* session_id has get_or_create_session make one from the clock
Receive(t, r) ==
    /\ pc[t] = "idle"
    /\ started < MaxRequests
    /\ started' = started + 1
    /\ req' = [req EXCEPT ![t] =
                  IF UsesSession(r.kind) /\ r.session_id = NoSessionId
                  THEN [r EXCEPT !.session_id = GeneratedSessionId(now)]
                  ELSE r]
    /\ chat_instance' = [chat_instance EXCEPT ![t] = NoInstance]
    /\ pc' = [pc EXCEPT ![t] = IF r.kind = "health_check" THEN "count" ELSE "acquire"]
    /\ UNCHANGED << sessions, chats, session_lock, access, creations, now, opened, turn_log >>
    /\ UNCHANGED nonServerVars

\* `with self.session_lock:` entered; get_status goes on to its loop
Acquire(t) ==
    /\ pc[t] = "acquire"
    /\ session_lock = NoThread
    /\ session_lock' = t
    /\ pc' = [pc EXCEPT ![t] = IF req[t].kind = "get_status" THEN "iterate" ELSE "locked"]
    /\ UNCHANGED << sessions, chats, req, chat_instance, access, creations, started >>
    /\ UNCHANGED << now, opened, turn_log >>
    /\ UNCHANGED nonServerVars

\* get_or_create_session: `if session_id not in self.sessions`; a known id is
\* returned and the lock left, an unknown one goes on to the constructor
Lookup(t) ==
    /\ pc[t] = "locked"
    /\ UsesSession(req[t].kind)
    /\ access' = [op |-> "lookup", locked |-> session_lock = t]
    /\ IF req[t].session_id \in DOMAIN sessions
       THEN /\ chat_instance' = [chat_instance EXCEPT ![t] = sessions[req[t].session_id]]
            /\ session_lock' = NoThread
            /\ pc' = [pc EXCEPT ![t] = AfterLookup(req[t].kind)]
            /\ opened' = Obtained(t, sessions[req[t].session_id])
            /\ turn_log' = IF AfterLookup(req[t].kind) = "turn"
                           THEN [turn_log EXCEPT ![sessions[req[t].session_id]] =
                                    Append(@, [kind |-> req[t].kind, phase |-> "begin"])]
                           ELSE turn_log
       ELSE /\ pc' = [pc EXCEPT ![t] = "construct"]
            /\ UNCHANGED << chat_instance, session_lock, opened, turn_log >>
    /\ UNCHANGED << sessions, chats, req, creations, started, now >>
    /\ UNCHANGED nonServerVars

\* get_or_create_session: self.sessions[session_id] = GeminiCalendarChat(), the
\* return of the new instance and the end of the `with` block
Construct(t) ==
    /\ pc[t] = "construct"
    /\ LET new == Len(chats) + 1
           sid == req[t].session_id
       IN  /\ chats' = Append(chats, ConversationContext)
           /\ sessions' = [s \in DOMAIN sessions \cup {sid} |->
                              IF s = sid THEN new ELSE sessions[s]]
           /\ chat_instance' = [chat_instance EXCEPT ![t] = new]
           /\ creations' = [creations EXCEPT ![sid] = @ + 1]
           /\ opened' = Obtained(t, new)
           /\ turn_log' = IF AfterLookup(req[t].kind) = "turn"
                          THEN Append(turn_log, << [kind |-> req[t].kind, phase |-> "begin"] >>)
                          ELSE Append(turn_log, << >>)
    /\ access' = [op |-> "insert", locked |-> session_lock = t]
    /\ session_lock' = NoThread
    /\ pc' = [pc EXCEPT ![t] = AfterLookup(req[t].kind)]
    /\ UNCHANGED << req, started, now >>
    /\ UNCHANGED nonServerVars

\* chat_with_calendar_context: `if not self.context.problem_statement`
CheckProblemStatement(t) ==
    /\ pc[t] = "turn"
    /\ pc' = [pc EXCEPT ![t] = IF chats[chat_instance[t]].problem_statement = EmptyText
                               THEN "store" ELSE "generate"]
    /\ UNCHANGED << sessions, chats, session_lock, req, chat_instance, access, creations,
                    started >>
    /\ UNCHANGED << now, opened, turn_log >>
    /\ UNCHANGED nonServerVars

\* chat_with_calendar_context: self.context.problem_statement = user_input
AssignProblemStatement(t) ==
    /\ pc[t] = "store"
    /\ chats' = [chats EXCEPT ![chat_instance[t]].problem_statement = req[t].message]
    /\ pc' = [pc EXCEPT ![t] = "generate"]
    /\ UNCHANGED << sessions, session_lock, req, chat_instance, access, creations, started >>
    /\ UNCHANGED << now, opened, turn_log >>
    /\ UNCHANGED nonServerVars

\* chat_with_calendar_context from generate_content on, and the handler's reply
Generate(t, outcome) ==
    /\ pc[t] = "generate"
    /\ outcome.kind = "function_call" => Len(chats[chat_instance[t]].proposals) < MaxProposals
    /\ chats' = [chats EXCEPT ![chat_instance[t]] =
                    IF outcome.kind = "raise" THEN @
                    ELSE ProcessEnhancedResponse(@, outcome, req[t].message).context]
    /\ pc' = [pc EXCEPT ![t] = "idle"]
    /\ req' = [req EXCEPT ![t] = NoRequest]
    /\ UNCHANGED << sessions, session_lock, chat_instance, access, creations, started >>
    /\ turn_log' = [turn_log EXCEPT ![chat_instance[t]] =
                        Append(@, [kind |-> req[t].kind, phase |-> "end"])]
    /\ UNCHANGED << now, opened >>
    /\ UNCHANGED nonServerVars

\* get_context: chat_instance.get_calendar_context() and the handler's reply
GetCalendarContext(t) ==
    /\ pc[t] = "read_context"
    /\ pc' = [pc EXCEPT ![t] = "idle"]
    /\ req' = [req EXCEPT ![t] = NoRequest]
    /\ UNCHANGED << sessions, chats, session_lock, chat_instance, access, creations, started >>
    /\ UNCHANGED << now, opened, turn_log >>
    /\ UNCHANGED nonServerVars

\* clear_conversation: clear_session(session_id), or sessions.clear() when the
\* request names no session, and the end of the `with` block
ClearSession(t) ==
    /\ pc[t] = "locked"
    /\ req[t].kind = "clear_conversation"
    /\ LET gone == IF req[t].session_id = NoSessionId THEN DOMAIN sessions
                   ELSE { req[t].session_id } \cap DOMAIN sessions
       IN  /\ sessions' = [s \in DOMAIN sessions \ gone |-> sessions[s]]
           /\ creations' = [s \in DOMAIN creations |-> IF s \in gone THEN 0 ELSE creations[s]]
    /\ access' = [op |-> "delete", locked |-> session_lock = t]
    /\ session_lock' = NoThread
    /\ pc' = [pc EXCEPT ![t] = "idle"]
    /\ req' = [req EXCEPT ![t] = NoRequest]
    /\ UNCHANGED << chats, chat_instance, started >>
    /\ UNCHANGED << now, opened, turn_log >>
    /\ UNCHANGED nonServerVars

\* get_status: the loop over sessions.items() calling get_calendar_context() on
\* every instance, and the end of the `with` block
IterateSessions(t) ==
    /\ pc[t] = "iterate"
    /\ access' = [op |-> "iterate", locked |-> session_lock = t]
    /\ session_lock' = NoThread
    /\ pc' = [pc EXCEPT ![t] = "count"]
    /\ UNCHANGED << sessions, chats, req, chat_instance, creations, started >>
    /\ UNCHANGED << now, opened, turn_log >>
    /\ UNCHANGED nonServerVars

\* len(chat_manager.sessions) in the reply of health_check and of get_status
CountSessions(t) ==
    /\ pc[t] = "count"
    /\ access' = [op |-> "count", locked |-> session_lock = t]
    /\ pc' = [pc EXCEPT ![t] = "idle"]
    /\ req' = [req EXCEPT ![t] = NoRequest]
    /\ UNCHANGED << sessions, chats, session_lock, chat_instance, creations, started >>
    /\ UNCHANGED << now, opened, turn_log >>
    /\ UNCHANGED nonServerVars

InitServer ==
    /\ impl = "chat"
    /\ ConversationIdle
    /\ FnIdle
    /\ BuilderIdle
    /\ EmbeddingIdle
    /\ SimilarIdle
    /\ ServerInit
    /\ WorkflowIdle

NextServer ==
    \/ Tick
    \/ \E t \in Threads, r \in ServerRequests : Receive(t, r)
    \/ \E t \in Threads : Acquire(t)
    \/ \E t \in Threads : Lookup(t)
    \/ \E t \in Threads : Construct(t)
    \/ \E t \in Threads : CheckProblemStatement(t)
    \/ \E t \in Threads : AssignProblemStatement(t)
    \/ \E t \in Threads, o \in ServerOutcomes : Generate(t, o)
    \/ \E t \in Threads : GetCalendarContext(t)
    \/ \E t \in Threads : ClearSession(t)
    \/ \E t \in Threads : IterateSessions(t)
    \/ \E t \in Threads : CountSessions(t)

SpecServer == InitServer /\ [][NextServer]_vars

\* ------------------------------------------------------- planning workflow
\* user_query: the texts handed to run_planning_workflow
WorkflowQueries == { << "A" >>, << "a", " ", "B" >> }

\* what the embedding model does in a run: it raises or replies a full vector
WorkflowEmbeddingOutcomes ==
    { o \in EmbeddingOutcomes :
        \/ o.kind = "raise"
        \/ /\ Len(o.fields) = EmbeddingDim
           /\ \A i \in 1..Len(o.fields) : o.fields[i] = << "1" >> }

\* a JSON null in a column of a row
Null == "null"

\* rows match_snippets returns: none (also when the rpc raises), a row, and a
\* row whose content is null
SnippetResults ==
    { << >>,
      << [content |-> "90-minute focused work session with 10-minute breaks"] >>,
      << [content |-> "Study session with Pomodoro technique"], [content |-> Null] >> }

\* rows match_routines returns
RoutineResults ==
    { << >>,
      << [pattern |-> "Lunch break at 12:00 PM"] >>,
      << [pattern |-> Null] >> }

\* k=3 of the three match_* calls
MatchCount == 3

\* the rows of a table at the positions chosen, in the table's order
RECURSIVE RowsAt(_, _, _)
RowsAt(table, chosen, i) ==
    IF i > Len(table) THEN << >>
    ELSE (IF i \in chosen THEN << table[i] >> ELSE << >>) \o RowsAt(table, chosen, i + 1)

\* the print loops after a match_* call: row.get(key, 'N/A')[:50] raises
\* TypeError on a null value
PrintRaises(rows, key) == \E i \in 1..Len(rows) : rows[i][key] = Null

\* run_planning_workflow from top to bottom: the step that follows each
StepAfterStoringFirst(step) ==
    CASE step = "is_light"   -> "embedding"
      [] step = "embedding"  -> "snippets"
      [] step = "snippets"   -> "routines"
      [] step = "routines"   -> "store"
      [] step = "store"      -> "utterances"
      [] step = "utterances" -> "response"
      [] OTHER               -> "returned"

StepAfter(step) ==
    CASE step = "is_light"   -> "embedding"
      [] step = "embedding"  -> "snippets"
      [] step = "snippets"   -> "routines"
      [] step = "routines"   -> "utterances"
      [] step = "utterances" -> "response"
      [] step = "response"   -> "store"
      [] OTHER               -> "returned"

\* _build_context: the lines joined into the context string
BuildContext(snippets, routines, utterances, is_light) ==
    << IF is_light THEN "Schedule: Light schedule" ELSE "Schedule: Busy schedule" >>
    \o (IF snippets = << >> THEN << >>
        ELSE << "Relevant plan snippets:" >>
             \o [i \in 1..Len(snippets) |-> << "- ", snippets[i].content >>])
    \o (IF routines = << >> THEN << >>
        ELSE << "User routines to consider:" >>
             \o [i \in 1..Len(routines) |-> << "- ", routines[i].pattern >>])
    \o (IF utterances = << >> THEN << >>
        ELSE << "Similar past requests:" >>
             \o [i \in 1..Len(utterances) |-> << "- ", utterances[i].transcript >>])

\* _generate_ai_plan: the fixed reply built around the query
GenerateAiPlan(user_query, context_) ==
    << "Based on your request '", user_query,
       "' and the context provided, here's a personalized plan that considers your schedule and preferences." >>

\* `except Exception as e: return {'error': str(e)}`
WorkflowError == [workflow EXCEPT !.step = "returned", !.returned = "error"]

\* run_planning_workflow(user_query) is called
RunPlanningWorkflow(user_query) ==
    /\ workflow.step \in { "none", "returned" }
    /\ workflow.run < MaxRuns
    /\ workflow' = [NoWorkflow EXCEPT !.step = "is_light", !.run = workflow.run + 1,
                                      !.user_query = user_query]
    /\ calls' = << >>
    /\ UNCHANGED utterances_table
    /\ UNCHANGED << impl, context, turnTexts, lastCall, result, events, fnResult,
                    builderVars, embeddingVars, similarVars, serverVars >>

\* 1) is_light = await self.supabase.is_light_next_24h()
IsLightNext24h(is_light) ==
    /\ workflow.step = "is_light"
    /\ workflow' = [workflow EXCEPT !.step = StepAfter(@), !.is_light = is_light]
    /\ calls' = Append(calls, [op |-> "is_light_next_24h", embedding |-> << >>])
    /\ UNCHANGED utterances_table
    /\ UNCHANGED << impl, context, turnTexts, lastCall, result, events, fnResult,
                    builderVars, embeddingVars, similarVars, serverVars >>

\* 2) query_embedding = self.embedding_service.get_embedding(user_query)
GetQueryEmbedding(outcome) ==
    /\ workflow.step = "embedding"
    /\ LET query_embedding_ == GetEmbedding(workflow.user_query, outcome)
       IN  /\ workflow' = [workflow EXCEPT !.step = StepAfter(@),
                                           !.query_embedding = query_embedding_]
           /\ calls' = Append(calls, [op |-> "get_embedding", embedding |-> query_embedding_])
    /\ UNCHANGED utterances_table
    /\ UNCHANGED << impl, context, turnTexts, lastCall, result, events, fnResult,
                    builderVars, embeddingVars, similarVars, serverVars >>

\* 3) snippets = await self.supabase.match_snippets(query_embedding, k=3, ...)
\* and the loop printing them
MatchSnippets(rows) ==
    /\ workflow.step = "snippets"
    /\ workflow' = IF PrintRaises(rows, "content") THEN WorkflowError
                   ELSE [workflow EXCEPT !.step = StepAfter(@), !.snippets = rows]
    /\ calls' = Append(calls, [op |-> "match_snippets", embedding |-> workflow.query_embedding])
    /\ UNCHANGED utterances_table
    /\ UNCHANGED << impl, context, turnTexts, lastCall, result, events, fnResult,
                    builderVars, embeddingVars, similarVars, serverVars >>

\* 4) routines = await self.supabase.match_routines(query_embedding, k=3)
\* and the loop printing them
MatchRoutines(rows) ==
    /\ workflow.step = "routines"
    /\ workflow' = IF PrintRaises(rows, "pattern") THEN WorkflowError
                   ELSE [workflow EXCEPT !.step = StepAfter(@), !.routines = rows]
    /\ calls' = Append(calls, [op |-> "match_routines", embedding |-> workflow.query_embedding])
    /\ UNCHANGED utterances_table
    /\ UNCHANGED << impl, context, turnTexts, lastCall, result, events, fnResult,
                    builderVars, embeddingVars, similarVars, serverVars >>

\* 5) utterances = await self.supabase.match_utterances(query_embedding, k=3)
\* and the loop printing them: the rpc returns at most k of the rows stored so
\* far, those at the positions chosen (none when it raises); the ranking is
\* the database's
MatchUtterances(chosen) ==
    /\ workflow.step = "utterances"
    /\ chosen \subseteq DOMAIN utterances_table
    /\ Cardinality(chosen) <= MatchCount
    /\ workflow' = [workflow EXCEPT !.step = StepAfter(@),
                                    !.utterances = RowsAt(utterances_table, chosen, 1)]
    /\ calls' = Append(calls, [op |-> "match_utterances", embedding |-> workflow.query_embedding])
    /\ UNCHANGED utterances_table
    /\ UNCHANGED << impl, context, turnTexts, lastCall, result, events, fnResult,
                    builderVars, embeddingVars, similarVars, serverVars >>

\* 6) context = self._build_context(...); ai_response = self._generate_ai_plan(...)
GenerateAiResponse ==
    /\ workflow.step = "response"
    /\ LET built == BuildContext(workflow.snippets, workflow.routines, workflow.utterances,
                                 workflow.is_light)
       IN  workflow' = [workflow EXCEPT !.step = StepAfter(@), !.context = built,
                                       !.ai_response = GenerateAiPlan(workflow.user_query, built)]
    /\ UNCHANGED << utterances_table, calls >>
    /\ UNCHANGED << impl, context, turnTexts, lastCall, result, events, fnResult,
                    builderVars, embeddingVars, similarVars, serverVars >>

\* 7) await self._store_interaction(user_query, ai_response, query_embedding):
\* store_utterance inserts the row, or raises and is answered False; the
\* workflow returns its result dict when this was its last step
StoreInteraction(inserted) ==
    /\ workflow.step = "store"
    /\ workflow' = [workflow EXCEPT !.step = StepAfter(@),
                                    !.returned = IF StepAfter(workflow.step) = "returned"
                                                 THEN "result" ELSE @]
    /\ calls' = Append(calls, [op |-> "store_utterance", embedding |-> workflow.query_embedding])
    /\ utterances_table' =
          IF inserted
          THEN Append(utterances_table,
                      [transcript |-> workflow.user_query, run |-> workflow.run])
          ELSE utterances_table
    /\ UNCHANGED << impl, context, turnTexts, lastCall, result, events, fnResult,
                    builderVars, embeddingVars, similarVars, serverVars >>

InitWorkflow ==
    /\ impl = "chat"
    /\ ConversationIdle
    /\ FnIdle
    /\ BuilderIdle
    /\ EmbeddingIdle
    /\ SimilarIdle
    /\ ServerInit
    /\ WorkflowIdle

NextWorkflow ==
    \/ \E q \in WorkflowQueries : RunPlanningWorkflow(q)
    \/ \E b \in BOOLEAN : IsLightNext24h(b)
    \/ \E o \in WorkflowEmbeddingOutcomes : GetQueryEmbedding(o)
    \/ \E rows \in SnippetResults : MatchSnippets(rows)
    \/ \E rows \in RoutineResults : MatchRoutines(rows)
    \/ \E chosen \in SUBSET (1..MaxRuns) : MatchUtterances(chosen)
    \/ GenerateAiResponse
    \/ \E inserted \in BOOLEAN : StoreInteraction(inserted)

SpecWorkflow == InitWorkflow /\ [][NextWorkflow]_vars

\* ------------------------------------------------ one turn from any context
\* the replies of a turn, and one that asks while naming a proposal
TurnOutcomes ==
    Outcomes \cup { [kind |-> "text", text |-> << "a", "Proposal", "?" >>,
                     call |-> NoCall, follow_up_raises |-> FALSE] }

\* a ConversationContext(problem_statement=..., clarifying_questions=...,
\* user_answers=...) holding up to MaxQuestions times the question "which day ?"
\* and no more answers "on monday" than questions
InitTurn ==
    /\ impl \in {"chat", "assistant"}
    /\ \E qs \in SeqUpTo({ << "which", "day", "?" >> }, MaxQuestions),
          as \in SeqUpTo({ << "on", "monday" >> }, MaxQuestions) :
          /\ Len(as) <= Len(qs)
          /\ context = [ConversationContext EXCEPT
                           !.problem_statement = IF qs = <<>> THEN EmptyText
                                                 ELSE << "my", "week", "is", "Hectic" >>,
                           !.clarifying_questions = qs,
                           !.user_answers = as]
    /\ turnTexts = <<>>
    /\ lastCall = [op |-> "init", outcome |-> NoOutcome]
    /\ result = NoResult
    /\ FnIdle
    /\ AuxIdle

\* one chat_with_calendar_context call on that context
ChatTurn(user_input, outcome) ==
    /\ lastCall.op = "init"
    /\ ChatWithCalendarContext(user_input, outcome)

\* one process_user_input call on that context
AssistantTurn(user_input, outcome) ==
    /\ lastCall.op = "init"
    /\ ProcessUserInput(user_input, outcome)

NextTurn ==
    \/ \E u \in UserInputs, o \in TurnOutcomes : ChatTurn(u, o)
    \/ \E u \in UserInputs, o \in TurnOutcomes : AssistantTurn(u, o)

SpecTurn == InitTurn /\ [][NextTurn]_vars

\* ================================================================ claims
\* the collaborator raised in the turn that ran last
TurnRaised(call) == call.op = "turn" /\ call.outcome.kind = "raise"

\* the first non-empty text of a list of turn texts, the empty text if there is none
RECURSIVE FirstNonEmpty(_)
FirstNonEmpty(texts) ==
    IF texts = <<>> THEN EmptyText
    ELSE IF Head(texts) # EmptyText THEN Head(texts)
    ELSE FirstNonEmpty(Tail(texts))

C2_AnswersWithinQuestions ==
    Len(context.user_answers) <= Len(context.clarifying_questions)

\* a second turn has been answered by the collaborator with a text containing '?'
C2_Witness ==
    /\ Len(turnTexts) >= 2
    /\ lastCall.op = "turn"
    /\ lastCall.outcome.kind = "text"
    /\ Contains(lastCall.outcome.text, "?")
    /\ turnTexts[Len(turnTexts)] # EmptyText

\* the turn's reply signals readiness: its text mentions 'proposal' or 'schedule',
\* or it is a generate_schedule_proposal function call
SignalsReadiness(outcome) ==
    \/ /\ outcome.kind = "text"
       /\ \/ Contains(Lower(outcome.text), "proposal")
          \/ Contains(Lower(outcome.text), "schedule")
    \/ /\ outcome.kind = "function_call"
       /\ outcome.call.name = "generate_schedule_proposal"

\* C3: every turn that signals readiness appends exactly one proposal at the end
\* of the proposals list and leaves the earlier proposals unchanged and in place.
C3_ReadinessAppendsOneProposal ==
    [][ (lastCall'.op = "turn" /\ SignalsReadiness(lastCall'.outcome))
          => /\ Len(context'.proposals) = Len(context.proposals) + 1
             /\ SubSeq(context'.proposals, 1, Len(context.proposals)) = context.proposals
      ]_vars

\* C4: the first proposal of a context has revision 1 and no predecessor; every
\* later one has the revision of the proposal before it plus one and that
\* proposal's id as previous_proposal_id.
C4_RevisionChain ==
    \A k \in 1..Len(context.proposals) :
        IF k = 1
        THEN /\ context.proposals[k].revision = 1
             /\ context.proposals[k].previous_proposal_id = None
        ELSE /\ context.proposals[k].revision = context.proposals[k - 1].revision + 1
             /\ context.proposals[k].previous_proposal_id = context.proposals[k - 1].id

\* C5: a turn in which the text-generation call raises returns the error reply
\* and leaves the whole context exactly as it was before the turn.
C5_FailedTurnLeavesContext ==
    [][ TurnRaised(lastCall')
          => /\ result'.message = ErrorMessage
             /\ context' = context
      ]_vars

\* C6: a turn in which the text-generation call raises returns the structured
\* result {type: 'error', message, suggestions}.
C6_FailureIsStructuredError ==
    TurnRaised(lastCall)
        => /\ result.shape = "dict"
           /\ result.type = "error"
           /\ {"message", "suggestions"} \subseteq DOMAIN result

\* every event of the list has start < end
AllValid(evs) ==
    \A i \in 1..Len(evs) : ParseIso(evs[i].start) < ParseIso(evs[i].end)

\* the position pairs i < j whose events overlap as half-open intervals
OverlapPositions(evs) ==
    { q \in (1..Len(evs)) \X (1..Len(evs)) :
        /\ q[1] < q[2]
        /\ ParseIso(evs[q[1]].start) < ParseIso(evs[q[2]].end)
        /\ ParseIso(evs[q[2]].start) < ParseIso(evs[q[1]].end) }

\* the place of a position pair among the pairs of S, in list order
Rank(S, q) ==
    Cardinality({ r \in S : r[1] < q[1] \/ (r[1] = q[1] /\ r[2] <= q[2]) })

\* how often each unordered pair of events is reported
PairCounts(conflicts) ==
    [ pr \in { {conflicts[k].event1, conflicts[k].event2} : k \in 1..Len(conflicts) } |->
        Cardinality({ k \in 1..Len(conflicts) :
                        {conflicts[k].event1, conflicts[k].event2} = pr }) ]

\* the list evs reordered by the permutation p of its positions
Reordered(evs, p) == [i \in 1..Len(evs) |-> evs[p[i]]]

\* C7: for a list of events with start < end the detector reports exactly the
\* pairs of distinct positions whose half-open intervals overlap, each once,
\* so never an event with itself and never two events that only touch, and
\* every reordering of the list yields the same reported pairs of events.
C7_ConflictsAreOverlappingPairs ==
    (fnResult.fn = "analyze_schedule_conflicts" /\ AllValid(events))
        => LET out == fnResult.out
               S   == OverlapPositions(events)
           IN  /\ out.success
               /\ out.conflict_count = Cardinality(S)
               /\ Len(out.conflicts) = Cardinality(S)
               /\ \A q \in S :
                     /\ out.conflicts[Rank(S, q)].event1 = events[q[1]]
                     /\ out.conflicts[Rank(S, q)].event2 = events[q[2]]
               /\ \A p \in Permutations(1..Len(events)) :
                     PairCounts(AnalyzeScheduleConflicts(Reordered(events, p)).conflicts)
                        = PairCounts(out.conflicts)

\* the detector ran on two different valid events that overlap, and reported them
C7_Witness ==
    /\ fnResult.fn = "analyze_schedule_conflicts"
    /\ AllValid(events)
    /\ Len(events) = 2
    /\ events[1] # events[2]
    /\ ParseIso(events[1].start) < ParseIso(events[2].start)
    /\ ParseIso(events[2].start) < ParseIso(events[1].end)
    /\ fnResult.out.conflict_count = 1

\* C8: no reported conflict pair contains an event with start = end.
C8_ZeroDurationNeverConflicts ==
    fnResult.fn = "analyze_schedule_conflicts"
        => \A k \in 1..Len(fnResult.out.conflicts) :
              /\ ParseIso(fnResult.out.conflicts[k].event1.start)
                    # ParseIso(fnResult.out.conflicts[k].event1.end)
              /\ ParseIso(fnResult.out.conflicts[k].event2.start)
                    # ParseIso(fnResult.out.conflicts[k].event2.end)

\* C9: a list holding an event with end <= start is rejected: the detector
\* never returns a success result for it.
C9_MalformedEventsRejected ==
    (fnResult.fn = "analyze_schedule_conflicts" /\ ~AllValid(events))
        => ~fnResult.out.success

\* C10: the estimate is 6.0 if some event starts at hour >= 22, else 7.0 if some
\* event starts at hour <= 7, else 8.0; below_target is estimate < target; the
\* evening count is the number of events starting at hour >= 18 and the morning
\* count the number starting at hour <= 8.
C10_SleepImpactRules ==
    fnResult.fn = "assess_sleep_impact"
        => LET out   == fnResult.out
               hours == [i \in 1..Len(events) |-> HourOf(events[i].start)]
               est   == IF \E i \in 1..Len(events) : hours[i] >= 22 THEN Hours(6)
                        ELSE IF \E i \in 1..Len(events) : hours[i] <= 7 THEN Hours(7)
                        ELSE Hours(8)
           IN  /\ out.estimated_sleep_hours = est
               /\ out.below_target = (est < fnResult.target)
               /\ out.evening_events_count
                     = Cardinality({ i \in 1..Len(events) : hours[i] >= 18 })
               /\ out.morning_events_count
                     = Cardinality({ i \in 1..Len(events) : hours[i] <= 8 })

\* the estimator ran on a late-evening event together with an early-morning one
C10_Witness ==
    /\ fnResult.fn = "assess_sleep_impact"
    /\ \E i \in 1..Len(events) : HourOf(events[i].start) >= 22
    /\ \E i \in 1..Len(events) : HourOf(events[i].start) <= 7
    /\ fnResult.out.estimated_sleep_hours = Hours(6)
    /\ fnResult.out.below_target

\* ---------------------------------------------------------------- C11, C12
\* the keyword triggers of the specification that fire on a problem text, in
\* the specification's order, each named by the change it asks for
FiredTriggers(problem) ==
    LET p  == Lower(problem)
        t1 == IF Contains(p, "hectic") \/ Contains(p, "busy")
              THEN << <<"add", "Focus Time">> >> ELSE <<>>
        t2 == IF Contains(p, "sleep") \/ Contains(p, "tired")
              THEN << <<"move", "Evening Activity">> >> ELSE <<>>
        t3 == IF Contains(p, "meeting") \/ Contains(p, "conflict")
              THEN << <<"adjust", "Meeting Adjustment">> >> ELSE <<>>
    IN  t1 \o t2 \o t3

\* the type and the event title of every change of a list
ChangeKinds(list) == [i \in 1..Len(list) |-> << list[i].type, list[i].event.title >>]

GenericKind == <<"add", "Optimization Block">>

\* C11: for any problem text the builder's change list holds exactly one
\* change per fired keyword trigger, in the order hectic/busy (add Focus Time),
\* sleep/tired (move Evening Activity), meeting/conflict (adjust a meeting),
\* whatever the order of the keywords in the text
C11_OneChangePerFiredTrigger ==
    changes.built =>
        LET fired == FiredTriggers(problem_description)
            kinds == ChangeKinds(changes.out)
        IN  IF fired = <<>>
            THEN \A i \in 1..Len(kinds) : kinds[i] = GenericKind
            ELSE kinds = fired

\* C11 restricted to GeminiCalendarChat, whose builder has all three triggers
C11_ChatOneChangePerFiredTrigger == impl = "chat" => C11_OneChangePerFiredTrigger

\* C12: the builder never returns an empty change list: when no trigger fires
\* it returns exactly the generic add of an 'Optimization Block', and that
\* change appears only when no trigger fired
C12_NeverEmptyChangeList ==
    changes.built =>
        LET fired == FiredTriggers(problem_description)
            kinds == ChangeKinds(changes.out)
        IN  /\ Len(kinds) >= 1
            /\ fired = <<>> => kinds = << GenericKind >>
            /\ fired # <<>> => \A i \in 1..Len(kinds) : kinds[i] # GenericKind

\* ---------------------------------------------------------- C13, C14, C15
\* the reply of the call that ran last went through the parse without a raise
ReplyParsed == response.kind = "text" /\ ~ReplyEmpty(response.fields) /\ ~ParseRaises(response.fields)

\* C13: get_embedding returns exactly EmbeddingDim (768) values for every text and every
\* collaborator reply: a parsed list longer than that is cut to its first EmbeddingDim
\* values and a shorter one is right-padded with zeros, never rejected
C13_AlwaysDimValues ==
    embedding.done =>
        /\ Len(embedding.out) = EmbeddingDim
        /\ ReplyParsed =>
              LET parsed == ParsedEmbedding(response.fields)
              IN  \A i \in 1..EmbeddingDim :
                      embedding.out[i] = IF i <= Len(parsed) THEN parsed[i] ELSE Zero

\* a reply with more than EmbeddingDim numbers was parsed and returned
C13_Witness ==
    /\ embedding.done
    /\ ReplyParsed
    /\ Len(ParsedEmbedding(response.fields)) > EmbeddingDim

\* the reply of the call that ran last holds no number the parse could take:
\* the conversion raised, or nothing numeric was left of the reply
ReplyUnparsable ==
    /\ response.kind = "text"
    /\ ParseRaises(response.fields) \/ KeptFields(response.fields) = <<>>

\* C14: whenever the collaborator call raises, returns an empty reply, or
\* returns a reply that cannot be parsed into numbers, get_embedding returns
\* exactly the fallback embedding of the text
C14_FailureYieldsFallback ==
    (embedding.done /\ (response.kind = "raise" \/ ReplyUnparsable))
        => embedding.out = GenerateFallbackEmbedding(embInput)

\* the part of C14 the code keeps: a raise, the empty string, or a field
\* float() rejects gives the fallback embedding
C14_RaiseOrRejectedFieldYieldsFallback ==
    (embedding.done /\ ~ReplyParsed) => embedding.out = GenerateFallbackEmbedding(embInput)

\* -1 <= v <= 1
InUnitRange(v) == v.q >= 0 - 32768 /\ (v.q < 32768 \/ (v.q = 32768 /\ v.r = 0))

\* C15: every value of every vector get_embedding returns lies in [-1, 1], on
\* the parsed-reply path as well as on the fallback path
C15_ValuesInUnitRange ==
    embedding.done => \A i \in 1..Len(embedding.out) : InUnitRange(embedding.out[i])

\* the part of C15 the code keeps: the fallback values lie in [-1, 1)
C15_FallbackInHalfOpenRange ==
    (embedding.done /\ ~ReplyParsed) =>
        \A i \in 1..Len(embedding.out) :
            embedding.out[i].q >= 0 - 32768 /\ embedding.out[i].q < 32768

\* --------------------------------------------------------------------- C16
\* C16: find_most_similar returns min(k, number of candidates) results, the
\* most similar ones, in non-increasing similarity order; candidates of equal
\* similarity keep their input order; a k larger than the number of candidates
\* returns all of them
C16_TopKStableDescending ==
    most_similar.done =>
        LET out == most_similar.out
            n   == Len(candidate_embeddings)
            k   == most_similar.k
            idx == { out[i].index : i \in 1..Len(out) }
        IN  /\ Len(out) = IF k < n THEN k ELSE n
            /\ Cardinality(idx) = Len(out)
            /\ \A i \in 1..Len(out) :
                  /\ out[i].index \in 0..(n - 1)
                  /\ out[i].embedding = candidate_embeddings[out[i].index + 1]
                  /\ out[i].similarity = Similarity(query_embedding, out[i].embedding)
            /\ \A i, j \in 1..Len(out) :
                  i < j => /\ ~SimilarityLess(out[i].similarity, out[j].similarity)
                           /\ out[i].similarity = out[j].similarity
                                 => out[i].index < out[j].index
            /\ \A c \in 0..(n - 1) : c \notin idx =>
                  \A i \in 1..Len(out) :
                      LET sc == Similarity(query_embedding, candidate_embeddings[c + 1])
                      IN  /\ ~SimilarityLess(out[i].similarity, sc)
                          /\ out[i].similarity = sc => out[i].index < c

\* k exceeded the number of candidates, two of which tie behind a better one
\* that came later in the input
C16_Witness ==
    /\ most_similar.done
    /\ most_similar.k > Len(candidate_embeddings)
    /\ Len(most_similar.out) = 3
    /\ most_similar.out[1].index = 2
    /\ most_similar.out[2].similarity = most_similar.out[3].similarity

\* ---------------------------------------------------------- C17, C18, C19
\* C17: under any interleaving every read and write of the session registry
\* (add, remove, lookup, count, iteration) happens while the accessing thread
\* holds the registry lock, and at most one chat instance is created for a
\* session id while its entry exists
C17_RegistryAccessUnderLock ==
    /\ access.locked
    /\ \A s \in SessionIds : creations[s] <= 1
    /\ \A s \in DOMAIN sessions : creations[s] = 1

\* the part of C17 the code keeps: one instance per entry, the same for every
\* thread that looked the id up while the entry stood
C17_OneInstancePerEntry ==
    /\ \A s \in SessionIds : creations[s] <= 1
    /\ \A s \in DOMAIN sessions : creations[s] = 1

\* C18: the registry lock is held only for the map lookup, insert or delete,
\* never while a session object is constructed or processed, so that a request
\* on one session never waits on work done for another
C18_LockOnlyAroundMapOperations ==
    \A t \in Threads : session_lock = t => pc[t] = "locked"

\* C19: a get_context request changes nothing: no step taken for it alters the
\* session registry or the context of any session, whether or not its session
\* id has a session
C19_GetContextChangesNothing ==
    [][ \A t \in Threads :
            (req[t].kind = "get_context" /\ pc'[t] # pc[t])
                => (sessions' = sessions /\ chats' = chats) ]_vars

C20_ClearedSessionStartsFresh ==
    [][ \A t \in Threads :
          /\ (pc[t] = "locked" /\ req[t].kind = "clear_conversation" /\ pc'[t] = "idle")
                => (req[t].session_id \notin DOMAIN sessions'
                    /\ (req[t].session_id = NoSessionId => sessions' = << >>))
          /\ (pc[t] = "construct" /\ pc'[t] # "construct")
                => /\ sessions'[req[t].session_id] = chat_instance'[t]
                   /\ chats'[chat_instance'[t]] = ConversationContext
                   /\ chat_instance'[t] \notin { sessions[s] : s \in DOMAIN sessions } ]_vars

\* ---------------------------------------------------------- C21, C22, C23
\* the turn of this step got a plain-text reply
TextTurn == lastCall'.op = "turn" /\ lastCall'.outcome.kind = "text"

\* the specification's test for a clarifying question, on the context the
\* turn starts from
ClassifiedQuestion(ctx, reply) ==
    /\ Contains(reply, "?")
    /\ Len(ctx.user_answers) < Len(ctx.clarifying_questions)
    /\ ~Contains(Lower(reply), "proposal")

\* the text a turn handed back to the user
Returned(res) == IF res.shape = "str" THEN res.message
                 ELSE IF res.shape = "dict" THEN res.message ELSE EmptyText

C22_QuestionThenAnswerRecorded ==
    [][ /\ (TextTurn /\ turnTexts = <<>> /\ Contains(lastCall'.outcome.text, "?")
               /\ ~Contains(Lower(lastCall'.outcome.text), "proposal"))
              => context'.clarifying_questions = << lastCall'.outcome.text >>
        /\ (TextTurn /\ Len(turnTexts) = 1 /\ lastCall.op = "turn"
               /\ lastCall.outcome.kind = "text" /\ Contains(lastCall.outcome.text, "?")
               /\ ~Contains(lastCall'.outcome.text, "?"))
              => context'.user_answers = << turnTexts'[2] >> ]_vars

StoredChanges(ctx) ==
    UNION { { ctx.proposals[k].changes[c] : c \in 1..Len(ctx.proposals[k].changes) }
            : k \in 1..Len(ctx.proposals) }

\* C24: every ChangeItem of every stored Proposal has a type equal to its
\* event's change_type, an event whose source is 'proposed', a non-empty
\* rationale and the acceptance 'pending'
C24_StoredChangesWellFormed ==
    \A ch \in StoredChanges(context) :
        /\ ch.type = ch.event.change_type
        /\ ch.event.source = "proposed"
        /\ ch.rationale # ""
        /\ ch.accepted = "pending"

\* two proposals are stored and one of them holds an 'add' and a 'move' change
C24_Witness ==
    /\ Len(context.proposals) = MaxProposals
    /\ \E k \in 1..Len(context.proposals) :
          {"add", "move"} \subseteq
              { context.proposals[k].changes[c].type
                  : c \in 1..Len(context.proposals[k].changes) }


\* the ids of the events of a list
EventIds(evs) == { evs[k].id : k \in 1..Len(evs) }

\* C25: when a Proposal is built, each of its move, remove and adjust changes
\* targets the id of an event of current_events, and its add changes have no
\* target
C25_TargetsCurrentEvents ==
    [][ Len(context'.proposals) = Len(context.proposals) + 1 =>
          LET built == context'.proposals[Len(context'.proposals)].changes
          IN  \A c \in 1..Len(built) :
                IF built[c].type = "add"
                THEN built[c].target_event_id = None
                ELSE built[c].target_event_id \in EventIds(context.current_events) ]_vars


\* C27: when turns of one session run concurrently problem_statement is
\* assigned at most once: once it is non-empty no step assigns it again
C27_ProblemStatementAssignedOnce ==
    [][ \A t \in Threads :
          (pc[t] = "store" /\ pc'[t] = "generate")
             => chats[chat_instance[t]].problem_statement = EmptyText ]_vars

\* C28: two start_conversation requests without a session_id obtain two
\* different session ids and two separate contexts
C28_FreshSessionsAreSeparate ==
    \A i, j \in DOMAIN opened :
        i # j => /\ opened[i].session_id # opened[j].session_id
                 /\ opened[i].instance # opened[j].instance

\* the turns of an instance opened by a completed start_conversation on which
\* the first send_message has just obtained the instance
OpenedThenFirstMessage ==
    << [kind |-> "start_conversation", phase |-> "begin"],
       [kind |-> "start_conversation", phase |-> "end"],
       [kind |-> "send_message", phase |-> "begin"] >>

\* C29: for a session opened through start_conversation, the first message
\* then sent through send_message is the session's problem_statement once its
\* turn has ended
C29_FirstMessageIsProblemStatement ==
    [][ \A t \in Threads :
          (/\ pc[t] = "generate" /\ pc'[t] = "idle"
           /\ req[t].kind = "send_message"
           /\ turn_log[chat_instance[t]] = OpenedThenFirstMessage)
             => chats'[chat_instance[t]].problem_statement = req[t].message ]_vars


\* the return values of _calculate_sleep_hours
EstimatorValues == { Hours(6), Hours(7), Hours(8) }

\* C30: a Proposal is stored with a sleep_assessment that agrees with the
\* sleep estimator and the preferences of that moment: estimated_sleep_hours
\* is 6.0, 7.0 or 8.0 and below_target says whether it is less than
\* preferences.sleep_target_hours, also after update_preferences
C30_SleepAssessmentAgreesWithEstimator ==
    [][ Len(context'.proposals) = Len(context.proposals) + 1 =>
          LET assessment == context'.proposals[Len(context'.proposals)].sleep_assessment
          IN  /\ assessment.estimated_sleep_hours \in EstimatorValues
              /\ assessment.below_target
                    = (assessment.estimated_sleep_hours
                         < context.preferences.sleep_target_hours) ]_vars


\* the collaborator calls of one run, in the order of the source
WorkflowOrder ==
    << "is_light_next_24h", "get_embedding", "match_snippets", "match_routines",
       "match_utterances", "store_utterance" >>

\* C26: in one run of run_planning_workflow the embedding is computed once and
\* before any pool is queried, the snippets, routines and utterances queries
\* follow in this order with that embedding, the context bundle is built from
\* the three results, and the run's own utterance is stored only after the
\* three retrievals, so it is never among the utterances the run retrieved
C26_WorkflowOrder ==
    /\ Len(calls) <= Len(WorkflowOrder)
    /\ \A i \in DOMAIN calls :
          /\ calls[i].op = WorkflowOrder[i]
          /\ i > 2 => calls[i].embedding = calls[2].embedding
    /\ workflow.context # << >> =>
          /\ Len(calls) >= 5
          /\ workflow.context = BuildContext(workflow.snippets, workflow.routines,
                                             workflow.utterances, workflow.is_light)
    /\ \A i \in DOMAIN workflow.utterances : workflow.utterances[i].run # workflow.run
    /\ \A i \in DOMAIN utterances_table :
          utterances_table[i].run = workflow.run => workflow.step = "returned"

\* a second run has gone through every step, retrieved the utterance the first
\* run stored and stored its own
C26_Witness ==
    /\ workflow.run = 2
    /\ workflow.returned = "result"
    /\ Len(calls) = Len(WorkflowOrder)
    /\ workflow.snippets # << >>
    /\ workflow.utterances # << >>
    /\ Len(utterances_table) = 2

====
